---- MODULE Spec2Model ----
(***************************************************************************)
(* Model of the retrieval-and-insight service of spendr-expense-tracker   *)
(* (backend/ragService.js and the Express routes that call it).            *)
(*                                                                         *)
(* Conventions                                                             *)
(*  - Node.js runs one callback at a time: an action is the code between  *)
(*    two awaits; pc[p] names the await a request p is suspended at.       *)
(*  - JavaScript values are records [kind, v, s]; amounts are integer      *)
(*    cents (4.50 is 450); text the code inspects character by character   *)
(*    (the generator output) is a sequence of one-character strings.       *)
(*  - PostgreSQL, Chroma, the embedding pipeline and the LLM are external: *)
(*    each await on them resolves or throws nondeterministically.          *)
(***************************************************************************)
EXTENDS Integers, Sequences, FiniteSets, TLC

\* ------------------------------------------------------------------ bounds
\* Number of rows of the expenses table (ids 1..MaxRows).
MaxRows == 3
\* Number of rows of the table when two requests run concurrently.
ConcRows == 1
\* Largest number of entries the collection holds when it is peeked at.
MaxIndexed == 11

\* --------------------------------------------------------- program constants
\* nResults of collection.query
K == 3
\* insight.length < 10 triggers the retry
MinInsightLen == 10
\* characters of the prompt template around ${structuredContext}
PromptFixedLen == 284
\* characters of the retry prompt around ${structuredContext}
SimplePromptFixedLen == 51

\* ------------------------------------------------------- JavaScript values
JsNum(c) == [kind |-> "number", v |-> c, s |-> ""]
JsNaN == [kind |-> "NaN", v |-> 0, s |-> ""]
JsNull == [kind |-> "null", v |-> 0, s |-> ""]
JsStr(t) == [kind |-> "string", v |-> 0, s |-> t]

\* StringToNumber on the decimal literals the table holds; any other
\* non-empty text is not a numeric literal.
ParseNumeric(t) ==
    CASE t = "4.50" -> JsNum(450)
      [] t = "5.00" -> JsNum(500)
      [] t = "12.00" -> JsNum(1200)
      [] t = "" -> JsNum(0)
      [] OTHER -> JsNaN

\* Number(x)
Number(x) ==
    CASE x.kind = "number" -> x
      [] x.kind = "NaN" -> x
      [] x.kind = "null" -> JsNum(0)
      [] x.kind = "undefined" -> JsNaN
      [] x.kind = "string" -> ParseNumeric(x.s)

\* isNaN(x) for x already a number value
isNaN(x) == x.kind = "NaN"

\* ------------------------------------------------------------ source rows
Date(y, m, d) == [y |-> y, m |-> m, d |-> d]

Row(note, amount, date) == [note |-> note, amount |-> amount, expense_date |-> date]

\* The two versions of row id the table can hold: version 1 as first
\* inserted, version 2 after the user edited the expense.
SourceRow(id, ver) ==
    CASE id = 1 /\ ver = 1 -> Row("Coffee", JsStr("4.50"), Date(2024, 1, 5))
      [] id = 1 /\ ver = 2 -> Row("Coffee", JsStr("4.50"), Date(2024, 2, 1))
      [] id = 2 /\ ver = 1 -> Row("Coffee", JsStr("5.00"), Date(2024, 2, 3))
      [] id = 2 /\ ver = 2 -> Row("Coffee", JsStr("abc"), Date(2024, 2, 3))
      [] id = 3 /\ ver = 1 -> Row("Rent", JsStr("12.00"), Date(2024, 3, 1))
      [] id = 3 /\ ver = 2 -> Row("Rent", JsStr("12.00"), Date(2024, 2, 28))
      [] id > 3 /\ ver = 1 -> Row("Lunch", JsStr("5.00"), Date(2023, 1, 9))
      [] OTHER -> Row("Lunch", JsNull, Date(2023, 1, 9))

Ids == 1..MaxRows

\* res.rows of "SELECT id, note, amount, expense_date FROM expenses"
SelectExpenses(table) ==
    [k \in 1..Len(table) |->
        [id |-> k,
         note |-> SourceRow(k, table[k]).note,
         amount |-> SourceRow(k, table[k]).amount,
         expense_date |-> SourceRow(k, table[k]).expense_date]]

\* ------------------------------------------------------------ index entries
\* `Expense: ${exp.note}, Amount: $${exp.amount}, Date: ${exp.expense_date}`
\* (the holes of the template are kept as the values put into them)
Desc(exp) == <<"Expense: ", exp.note, ", Amount: $", exp.amount, ", Date: ", exp.expense_date>>

\* The embedding pipeline is a function of the text alone.
Embedding(text) == [of |-> text]

\* (variant: the display text is left out of the metadata)
MetadataNoText(exp) ==
    [note |-> exp.note,
     amount |-> Number(exp.amount),
     date |-> exp.expense_date]

\* metadatas[0] of collection.add
Metadata(exp) ==
    [text |-> Desc(exp),
     note |-> exp.note,
     amount |-> Number(exp.amount),
     date |-> exp.expense_date]

\* the argument of collection.add for one expense and its vector
AddRequest(exp, vector) ==
    [id |-> exp.id, embedding |-> vector, metadata |-> Metadata(exp)]

HasId(idx, id) == \E e \in idx : e.id = id
EntriesOf(idx, id) == {e \in idx : e.id = id}

\* Chroma's add: a record whose id is already present is not written (the
\* server keeps the stored one); otherwise the record is inserted.
CollectionAdd(idx, req) == IF HasId(idx, req.id) THEN idx ELSE idx \cup {req}

\* ------------------------------------------------------------ text handling
\* The text of the generator is a sequence of characters.
MarkerS == <<"<", "s", ">">>
MarkerOut == <<"[", "O", "U", "T", "]">>

IsSpace(c) == c \in {" ", "\n", "\t"}

RECURSIVE TrimStart(_)
TrimStart(t) ==
    IF t = <<>> \/ ~IsSpace(Head(t)) THEN t ELSE TrimStart(Tail(t))

RECURSIVE TrimEnd(_)
TrimEnd(t) ==
    IF t = <<>> \/ ~IsSpace(t[Len(t)]) THEN t ELSE TrimEnd(SubSeq(t, 1, Len(t) - 1))

\* String.prototype.trim
Trim(t) == TrimEnd(TrimStart(t))

StartsWith(t, m) == Len(t) >= Len(m) /\ SubSeq(t, 1, Len(m)) = m

\* t.replace(/<s>|\[OUT\]/g, ""): one pass from the left, the matches
\* removed, the scan going on after each match.
RECURSIVE StripMarkers(_)
StripMarkers(t) ==
    IF t = <<>> THEN <<>>
    ELSE IF StartsWith(t, MarkerS) THEN StripMarkers(SubSeq(t, Len(MarkerS) + 1, Len(t)))
    ELSE IF StartsWith(t, MarkerOut) THEN StripMarkers(SubSeq(t, Len(MarkerOut) + 1, Len(t)))
    ELSE <<Head(t)>> \o StripMarkers(Tail(t))

\* "No valid expenses found for the query." after the warning sign
NoExpensesText ==
    <<"!", " ", "N", "o", " ", "v", "a", "l", "i", "d", " ", "e", "x", "p", "e", "n",
      "s", "e", "s", " ", "f", "o", "u", "n", "d", " ", "f", "o", "r", " ", "t", "h",
      "e", " ", "q", "u", "e", "r", "y", ".">>

\* "The model didn't return meaningful insights." after the warning sign
NoInsightText ==
    <<"!", " ", "T", "h", "e", " ", "m", "o", "d", "e", "l", " ", "d", "i", "d", "n",
      "'", "t", " ", "r", "e", "t", "u", "r", "n", " ", "m", "e", "a", "n", "i", "n",
      "g", "f", "u", "l", " ", "i", "n", "s", "i", "g", "h", "t", "s", ".">>

\* response?.content of a generator reply: a text, or no content at all
Content(t) == [has |-> TRUE, text |-> t]
NoContent == [has |-> FALSE, text |-> <<>>]

\* response?.content?.trim() || ""  then  .replace(...).trim()
FirstInsight(resp) ==
    Trim(StripMarkers(IF resp.has THEN Trim(resp.text) ELSE <<>>))

\* (variant: !insight alone)
DegenerateIfEmpty(insight) == insight = <<>>

\* !insight || insight.length < 10
Degenerate(insight) == insight = <<>> \/ Len(insight) < MinInsightLen

\* retryResp?.content?.trim() || insight  then  .replace(...).trim()
RetryInsight(resp, insight) ==
    Trim(StripMarkers(IF resp.has /\ Trim(resp.text) # <<>> THEN Trim(resp.text) ELSE insight))

\* (variant: return insight)
FinalInsightBare(insight) == insight

\* insight || "The model didn't return meaningful insights."
FinalInsight(insight) == IF insight # <<>> THEN insight ELSE NoInsightText

\* ------------------------------------------------------------- aggregation
MonthNames ==
    <<"January", "February", "March", "April", "May", "June", "July", "August",
      "September", "October", "November", "December">>

\* new Date(d).toLocaleString("default", {month: "long", year: "numeric"}),
\* English locale, the server's zone UTC
MonthLabel(d) == [name |-> MonthNames[d.m], year |-> d.y]

\* Position of a month name among the month names in code-unit order.
AlphaRank(name) ==
    CASE name = "April" -> 1 [] name = "August" -> 2 [] name = "December" -> 3
      [] name = "February" -> 4 [] name = "January" -> 5 [] name = "July" -> 6
      [] name = "June" -> 7 [] name = "March" -> 8 [] name = "May" -> 9
      [] name = "November" -> 10 [] name = "October" -> 11 [] OTHER -> 12

\* a < b as Array.prototype.sort() orders the strings "<name> <year>"
\* (no month name is a prefix of another; years have four digits)
LabelBefore(a, b) ==
    \/ AlphaRank(a.name) < AlphaRank(b.name)
    \/ a.name = b.name /\ a.year < b.year

\* Object.keys(monthMap).sort()
RECURSIVE SortLabels(_)
SortLabels(S) ==
    IF S = {} THEN <<>>
    ELSE LET least == CHOOSE a \in S : \A b \in S \ {a} : LabelBefore(a, b)
         IN <<least>> \o SortLabels(S \ {least})

\* (variant: a non-numeric amount is pushed as 0)
ToExpenseZeroed(m) ==
    [note |-> m.note,
     amount |-> IF isNaN(Number(m.amount)) THEN JsNum(0) ELSE Number(m.amount),
     date |-> m.date]

\* one element pushed by the forEach over results.metadatas.flat()
ToExpense(m) == [note |-> m.note, amount |-> Number(m.amount), date |-> m.date]

\* (variant: the isNaN test is missing)
KeepAll(e) == TRUE

Keep(e) == ~isNaN(e.amount)

\* expenses after the forEach: the hits with a numeric amount, in order
RetrievedExpenses(ms) ==
    SelectSeq([k \in 1..Len(ms) |-> ToExpense(ms[k])], Keep)

\* total after the forEach over expenses
RECURSIVE Total(_)
Total(es) == IF es = <<>> THEN 0 ELSE Head(es).amount.v + Total(Tail(es))

InMonth(es, label) == SelectSeq(es, LAMBDA e : MonthLabel(e.date) = label)

\* (variant: monthMap[month] = exp.amount, the sum so far overwritten)
MonthMapOverwriting(es) ==
    [label \in {MonthLabel(es[k].date) : k \in 1..Len(es)} |->
        InMonth(es, label)[Len(InMonth(es, label))].amount.v]

\* monthMap after the forEach over expenses
MonthMap(es) ==
    [label \in {MonthLabel(es[k].date) : k \in 1..Len(es)} |-> Total(InMonth(es, label))]

Abs(x) == IF x < 0 THEN -x ELSE x

\* x.toFixed(2) of an amount in cents
ToFixed2(c) == [dollars |-> c \div 100, cents |-> c % 100]

\* the sentence built from lastMonth, thisMonth and diff
TrendSentence(lastMonth, thisMonth, diff) ==
    <<"Compared to ", lastMonth, ", your spending in ", thisMonth, " is ",
      IF diff >= 0 THEN "higher" ELSE "lower", " by $", ToFixed2(Abs(diff)), ".">>

\* (variant: months.length >= 3)
TrendSummaryNeedsThree(mm) ==
    LET months == SortLabels(DOMAIN mm)
        n == Len(months)
    IN IF n >= 3
         THEN TrendSentence(months[n - 1], months[n], mm[months[n]] - mm[months[n - 1]])
         ELSE <<>>

\* trendSummary
TrendSummary(mm) ==
    LET months == SortLabels(DOMAIN mm)
        n == Len(months)
    IN IF n >= 2
         THEN TrendSentence(months[n - 1], months[n], mm[months[n]] - mm[months[n - 1]])
         ELSE <<>>

\* structuredContext
StructuredContext(es, tot, trend) ==
    [items |-> es, total |-> ToFixed2(tot), trend |-> trend]

\* prompt and simplePrompt: the template and the context put into it
Prompt(ctx) == [template |-> "insight", context |-> ctx]
SimplePrompt(ctx) == [template |-> "summary", context |-> ctx]

\* characters of a prompt besides its context
TemplateLen(prm) ==
    IF prm.template = "insight" THEN PromptFixedLen ELSE SimplePromptFixedLen

\* ------------------------------------------------------- external services
\* collection.query({nResults: 3}): the metadata of min(3, size) distinct
\* entries, in the order of their distance to the query vector
RankedEntries(idx) ==
    LET n == IF Cardinality(idx) < K THEN Cardinality(idx) ELSE K
    IN {r \in [1..n -> idx] : \A a, b \in 1..n : a # b => r[a] # r[b]}

SearchResults(idx) ==
    {[k \in DOMAIN r |-> r[k].metadata] : r \in RankedEntries(idx)}

Body(n) == [k \in 1..n |-> "a"]

\* replies of the generator the model draws from
GenResponses ==
    {NoContent} \cup
    {Content(t) : t \in
        {<<>>, <<" ", "\n">>, MarkerS, MarkerOut, <<"H", "i">>,
         MarkerS \o <<" ", "H", "i", " ">>,
         <<"<">> \o MarkerS \o <<"s", ">">>,
         Body(MinInsightLen - 1), Body(MinInsightLen),
         <<" ">> \o MarkerS \o Body(MinInsightLen - 1) \o MarkerOut \o <<"\n">>,
         MarkerOut \o Body(MinInsightLen) \o <<" ">>}}

\* -------------------------------------------------------------------- state
Procs == {"p1", "p2"}

VARIABLES
    clients,        \* requests the HTTP layer may have in flight
    table,          \* expenses table: version of each row
    serverHas,      \* Chroma server holds the "expenses" collection
    index,          \* entries of the "expenses" collection
    collection,     \* module variable collection is set
    model,          \* module variable model is set
    embedPipeline,  \* module variable embedPipeline is set
    op,             \* operation a request runs
    pc,             \* await a request is suspended at
    rows,           \* buildEmbeddings: expenses (res.rows)
    i,              \* buildEmbeddings: position of the for loop
    vector,         \* buildEmbeddings: vector of the current expense
    outcome,        \* buildEmbeddings: what happened to each expense so far
    logged,         \* ids printed by console.error in this run
    hits,           \* queryInsights: results.metadatas.flat()
    expenses,       \* queryInsights: expenses
    total,          \* queryInsights: total
    monthMap,       \* queryInsights: monthMap
    trendSummary,   \* queryInsights: trendSummary
    prompts,        \* queryInsights: prompts passed to model.invoke so far
    insight,        \* queryInsights: insight
    called,         \* queryInsights: calls made of collection.query, model.invoke
    replies,        \* queryInsights: how each model.invoke call settled
    sample,         \* debugChroma: entries collection.get resolved with
    error,          \* what the operation rejected with
    ret,            \* value the operation returned
    reply           \* what the route sent

buildVars == <<rows, i, vector, outcome, logged>>
queryVars == <<hits, expenses, total, monthMap, trendSummary, prompts, insight>>
traceVars == <<called, replies, sample, error>>
vars == <<clients, table, serverHas, index, collection, model, embedPipeline,
          op, pc, rows, i, vector, outcome, logged, hits, expenses, total, monthMap,
          trendSummary, prompts, insight, called, replies, sample, error, ret, reply>>

NoValue == [kind |-> "none", text |-> <<>>]
Undefined == [kind |-> "undefined", text |-> <<>>]
StringValue(t) == [kind |-> "string", text |-> t]

\* The process has just started: no handle is set, no request is running.
Fresh ==
    /\ collection = FALSE
    /\ model = FALSE
    /\ embedPipeline = FALSE
    /\ op = [p \in Procs |-> "idle"]
    /\ pc = [p \in Procs |-> "idle"]
    /\ rows = [p \in Procs |-> <<>>]
    /\ i = [p \in Procs |-> 0]
    /\ vector = [p \in Procs |-> Embedding(<<>>)]
    /\ outcome = [p \in Procs |-> <<>>]
    /\ logged = [p \in Procs |-> {}]
    /\ hits = [p \in Procs |-> <<>>]
    /\ expenses = [p \in Procs |-> <<>>]
    /\ total = [p \in Procs |-> 0]
    /\ monthMap = [p \in Procs |-> <<>>]
    /\ trendSummary = [p \in Procs |-> <<>>]
    /\ prompts = [p \in Procs |-> <<>>]
    /\ insight = [p \in Procs |-> <<>>]
    /\ called = [p \in Procs |-> {}]
    /\ replies = [p \in Procs |-> <<>>]
    /\ sample = [p \in Procs |-> {}]
    /\ error = [p \in Procs |-> "none"]
    /\ ret = [p \in Procs |-> NoValue]
    /\ reply = [p \in Procs |-> "none"]

\* One request at a time, over a table of MaxRows rows and an empty index.
Init ==
    /\ clients = {"p1"}
    /\ table = [k \in Ids |-> 1]
    /\ serverHas \in BOOLEAN
    /\ index = {}
    /\ Fresh

\* Two requests may be in flight, over a table of ConcRows rows.
InitConc ==
    /\ clients = Procs
    /\ table = [k \in 1..ConcRows |-> 1]
    /\ serverHas \in BOOLEAN
    /\ index = {}
    /\ Fresh

\* the entry a run of buildEmbeddings stored for row id (first version)
StoredEntry(id) ==
    LET exp == [id |-> id,
                note |-> SourceRow(id, 1).note,
                amount |-> SourceRow(id, 1).amount,
                expense_date |-> SourceRow(id, 1).expense_date]
    IN AddRequest(exp, Embedding(Desc(exp)))

\* The process starts over a collection that earlier runs of the service
\* filled with up to MaxIndexed entries (Chroma keeps them across restarts).
InitDebug ==
    /\ clients = Procs
    /\ table = <<>>
    /\ serverHas = TRUE
    /\ \E n \in 0..MaxIndexed : index = {StoredEntry(k) : k \in 1..n}
    /\ Fresh

\* ------------------------------------------------------------------ initRAG
\* getEmbedding starts with initEmbed: the pipeline is loaded when the
\* module variable is unset, else the text is embedded at once.
EmbedEntry(loaded) == IF loaded THEN "embedPipeline" ELSE "pipeline"

\* The await the caller of initRAG reaches next.
AfterInitRAG(o, loaded) ==
    CASE o = "build" -> "poolQuery"
      [] o = "query" -> EmbedEntry(loaded)
      [] OTHER -> "collectionGet"

\* A route handler starts: the operation calls initRAG, which either finds
\* the collection handle set (and then sets the model if unset) or awaits
\* chroma.createCollection.
Start(p, o) ==
    /\ p \in clients
    /\ pc[p] = "idle"
    /\ op' = [op EXCEPT ![p] = o]
    /\ IF collection
         THEN /\ model' = TRUE
              /\ pc' = [pc EXCEPT ![p] = AfterInitRAG(o, embedPipeline)]
         ELSE /\ model' = model
              /\ pc' = [pc EXCEPT ![p] = "createCollection"]
    /\ rows' = [rows EXCEPT ![p] = <<>>]
    /\ i' = [i EXCEPT ![p] = 0]
    /\ outcome' = [outcome EXCEPT ![p] = <<>>]
    /\ logged' = [logged EXCEPT ![p] = {}]
    /\ ret' = [ret EXCEPT ![p] = NoValue]
    /\ reply' = [reply EXCEPT ![p] = "none"]
    /\ UNCHANGED <<clients, table, serverHas, index, collection, embedPipeline, vector>>
    /\ UNCHANGED queryVars
    /\ called' = [called EXCEPT ![p] = {}]
    /\ replies' = [replies EXCEPT ![p] = <<>>]
    /\ sample' = [sample EXCEPT ![p] = {}]
    /\ error' = [error EXCEPT ![p] = "none"]

StartBuild(p) == Start(p, "build")

StartQuery(p) == Start(p, "query")

\* chroma.createCollection settles: it creates the collection, or throws
\* (the collection exists, or the server cannot be reached); the catch logs
\* and initRAG goes on to chroma.getCollection.
CreateCollectionReturn(p) ==
    /\ pc[p] = "createCollection"
    /\ \/ ~serverHas /\ serverHas' = TRUE
       \/ serverHas' = serverHas
    /\ pc' = [pc EXCEPT ![p] = "getCollection"]
    /\ UNCHANGED <<clients, table, index, collection, model, embedPipeline,
                   op, ret, reply>>
    /\ UNCHANGED buildVars
    /\ UNCHANGED queryVars
    /\ UNCHANGED traceVars

\* chroma.getCollection resolves: the handle is stored, the model is built
\* if unset, and the caller goes on.
GetCollectionOk(p) ==
    /\ pc[p] = "getCollection"
    /\ serverHas
    /\ collection' = TRUE
    /\ model' = TRUE
    /\ pc' = [pc EXCEPT ![p] = AfterInitRAG(op[p], embedPipeline)]
    /\ UNCHANGED <<clients, table, serverHas, index, embedPipeline, op, ret, reply>>
    /\ UNCHANGED buildVars
    /\ UNCHANGED queryVars
    /\ UNCHANGED traceVars

\* (variant: the handle is assigned before the call has settled)
GetCollectionThrowsHandleSet(p) ==
    /\ pc[p] = "getCollection"
    /\ pc' = [pc EXCEPT ![p] = "raised"]
    /\ collection' = TRUE
    /\ UNCHANGED <<clients, table, serverHas, index, model,
                   embedPipeline, op, ret, reply>>
    /\ UNCHANGED buildVars
    /\ UNCHANGED queryVars
    /\ error' = [error EXCEPT ![p] = "init"]
    /\ UNCHANGED <<called, replies, sample>>

\* chroma.getCollection throws: initRAG and the operation reject.
GetCollectionThrows(p) ==
    /\ pc[p] = "getCollection"
    /\ pc' = [pc EXCEPT ![p] = "raised"]
    /\ UNCHANGED <<clients, table, serverHas, index, collection, model,
                   embedPipeline, op, ret, reply>>
    /\ UNCHANGED buildVars
    /\ UNCHANGED queryVars
    /\ error' = [error EXCEPT ![p] = "init"]
    /\ UNCHANGED <<called, replies, sample>>

\* ---------------------------------------------------------- buildEmbeddings
\* pool.query throws: buildEmbeddings rejects.
PoolQueryThrows(p) ==
    /\ pc[p] = "poolQuery"
    /\ pc' = [pc EXCEPT ![p] = "raised"]
    /\ UNCHANGED <<clients, table, serverHas, index, collection, model,
                   embedPipeline, op, ret, reply>>
    /\ UNCHANGED buildVars
    /\ UNCHANGED queryVars
    /\ error' = [error EXCEPT ![p] = "source"]
    /\ UNCHANGED <<called, replies, sample>>

\* The for loop moves to expense k: past the end buildEmbeddings returns
\* (nothing) and the route sends its confirmation, else getEmbedding is
\* called for expenses[k].
LoopTo(p, k, n, loaded) ==
    IF k > n
      THEN /\ pc' = [pc EXCEPT ![p] = "done"]
           /\ ret' = [ret EXCEPT ![p] = Undefined]
           /\ reply' = [reply EXCEPT ![p] = "Embeddings built."]
      ELSE /\ pc' = [pc EXCEPT ![p] = EmbedEntry(loaded)]
           /\ UNCHANGED <<ret, reply>>

\* pool.query resolves with the rows of the table.
PoolQueryReturn(p) ==
    /\ pc[p] = "poolQuery"
    /\ rows' = [rows EXCEPT ![p] = SelectExpenses(table)]
    /\ i' = [i EXCEPT ![p] = 1]
    /\ LoopTo(p, 1, Len(table), embedPipeline)
    /\ UNCHANGED <<clients, table, serverHas, index, collection, model,
                   embedPipeline, op, vector, outcome, logged>>
    /\ UNCHANGED queryVars
    /\ UNCHANGED traceVars

\* (variant: the catch logs and throws again)
CatchRethrows(p, what, loaded) ==
    /\ logged' = [logged EXCEPT ![p] = @ \cup {rows[p][i[p]].id}]
    /\ outcome' = [outcome EXCEPT ![p] = Append(@, what)]
    /\ pc' = [pc EXCEPT ![p] = "raised"]
    /\ UNCHANGED <<i, ret, reply>>

\* (variant: the catch is empty)
CatchSilently(p, what, loaded) ==
    /\ outcome' = [outcome EXCEPT ![p] = Append(@, what)]
    /\ i' = [i EXCEPT ![p] = @ + 1]
    /\ LoopTo(p, i[p] + 1, Len(rows[p]), loaded)
    /\ UNCHANGED logged

\* The catch of the loop body: the failure is logged with the expense id
\* and the loop goes on with the next expense.
CatchRecordError(p, what, loaded) ==
    /\ logged' = [logged EXCEPT ![p] = @ \cup {rows[p][i[p]].id}]
    /\ outcome' = [outcome EXCEPT ![p] = Append(@, what)]
    /\ i' = [i EXCEPT ![p] = @ + 1]
    /\ LoopTo(p, i[p] + 1, Len(rows[p]), loaded)

\* pipeline(...) of initEmbed resolves: the pipeline is stored and called.
PipelineReturn(p) ==
    /\ pc[p] = "pipeline"
    /\ embedPipeline' = TRUE
    /\ pc' = [pc EXCEPT ![p] = "embedPipeline"]
    /\ UNCHANGED <<clients, table, serverHas, index, collection, model, op, ret, reply>>
    /\ UNCHANGED buildVars
    /\ UNCHANGED queryVars
    /\ UNCHANGED traceVars

\* getEmbedding throws inside the loop (the pipeline cannot be loaded, the
\* embedding call fails or its output has an unexpected format).
BuildEmbedThrows(p) ==
    /\ op[p] = "build"
    /\ pc[p] \in {"pipeline", "embedPipeline"}
    /\ CatchRecordError(p, "embedFault", embedPipeline)
    /\ UNCHANGED <<clients, table, serverHas, index, collection, model,
                   embedPipeline, op, rows, vector>>
    /\ UNCHANGED queryVars
    /\ UNCHANGED traceVars

\* getEmbedding resolves inside the loop: collection.add is called.
BuildEmbedReturn(p) ==
    /\ op[p] = "build"
    /\ pc[p] = "embedPipeline"
    /\ vector' = [vector EXCEPT ![p] = Embedding(Desc(rows[p][i[p]]))]
    /\ pc' = [pc EXCEPT ![p] = "collectionAdd"]
    /\ UNCHANGED <<clients, table, serverHas, index, collection, model,
                   embedPipeline, op, rows, i, outcome, logged, ret, reply>>
    /\ UNCHANGED queryVars
    /\ UNCHANGED traceVars

\* collection.add resolves: the entry is stored, or, its id being present
\* already, the server keeps the stored entry.
CollectionAddReturn(p) ==
    /\ pc[p] = "collectionAdd"
    /\ LET req == AddRequest(rows[p][i[p]], vector[p]) IN
         /\ index' = CollectionAdd(index, req)
         /\ outcome' = [outcome EXCEPT ![p] =
                Append(@, IF HasId(index, req.id) THEN "ignored" ELSE "stored")]
    /\ i' = [i EXCEPT ![p] = @ + 1]
    /\ LoopTo(p, i[p] + 1, Len(rows[p]), embedPipeline)
    /\ UNCHANGED <<clients, table, serverHas, collection, model, embedPipeline,
                   op, rows, vector, logged>>
    /\ UNCHANGED queryVars
    /\ UNCHANGED traceVars

\* collection.add throws: the server cannot be reached ("addFault"), or it
\* rejects an id that is present already ("duplicate"; Chroma releases
\* differ in whether add ignores or rejects such an id).
CollectionAddThrows(p) ==
    /\ pc[p] = "collectionAdd"
    /\ \E what \in {"addFault", "duplicate"} :
         /\ what = "duplicate" => HasId(index, rows[p][i[p]].id)
         /\ CatchRecordError(p, what, embedPipeline)
    /\ UNCHANGED <<clients, table, serverHas, index, collection, model,
                   embedPipeline, op, rows, vector>>
    /\ UNCHANGED queryVars
    /\ UNCHANGED traceVars

\* ------------------------------------------------------------ queryInsights
\* (variant: the failure is caught and the search goes on)
QueryEmbedSwallowed(p) ==
    /\ op[p] = "query"
    /\ pc[p] \in {"pipeline", "embedPipeline"}
    /\ pc' = [pc EXCEPT ![p] = "collectionQuery"]
    /\ UNCHANGED <<clients, table, serverHas, index, collection, model,
                   embedPipeline, op, ret, reply>>
    /\ UNCHANGED buildVars
    /\ UNCHANGED queryVars
    /\ error' = [error EXCEPT ![p] = "embedding"]
    /\ called' = [called EXCEPT ![p] = @ \cup {"collection.query"}]
    /\ UNCHANGED <<replies, sample>>

\* getEmbedding(userQuery) throws: queryInsights rejects.
QueryEmbedThrows(p) ==
    /\ op[p] = "query"
    /\ pc[p] \in {"pipeline", "embedPipeline"}
    /\ pc' = [pc EXCEPT ![p] = "raised"]
    /\ UNCHANGED <<clients, table, serverHas, index, collection, model,
                   embedPipeline, op, ret, reply>>
    /\ UNCHANGED buildVars
    /\ UNCHANGED queryVars
    /\ error' = [error EXCEPT ![p] = "embedding"]
    /\ UNCHANGED <<called, replies, sample>>

\* getEmbedding(userQuery) resolves: collection.query is called.
QueryEmbedReturn(p) ==
    /\ op[p] = "query"
    /\ pc[p] = "embedPipeline"
    /\ pc' = [pc EXCEPT ![p] = "collectionQuery"]
    /\ UNCHANGED <<clients, table, serverHas, index, collection, model,
                   embedPipeline, op, ret, reply>>
    /\ UNCHANGED buildVars
    /\ UNCHANGED queryVars
    /\ called' = [called EXCEPT ![p] = @ \cup {"collection.query"}]
    /\ UNCHANGED <<replies, sample, error>>

\* collection.query throws: queryInsights rejects.
CollectionQueryThrows(p) ==
    /\ pc[p] = "collectionQuery"
    /\ pc' = [pc EXCEPT ![p] = "raised"]
    /\ UNCHANGED <<clients, table, serverHas, index, collection, model,
                   embedPipeline, op, ret, reply>>
    /\ UNCHANGED buildVars
    /\ UNCHANGED queryVars
    /\ error' = [error EXCEPT ![p] = "search"]
    /\ UNCHANGED <<called, replies, sample>>

\* queryInsights returns text: the route sends it as {insight}.
ReturnInsight(p, text) ==
    /\ pc' = [pc EXCEPT ![p] = "done"]
    /\ ret' = [ret EXCEPT ![p] = StringValue(text)]
    /\ reply' = [reply EXCEPT ![p] = "insight"]

\* collection.query resolves: the hits are filtered into expenses; with no
\* expense left the sentinel is returned, else total, monthMap, the trend
\* and the prompt are built and model.invoke is called.
CollectionQueryReturn(p) ==
    /\ pc[p] = "collectionQuery"
    /\ \E ms \in SearchResults(index) :
         LET es == RetrievedExpenses(ms)
             mm == MonthMap(es)
             trend == TrendSummary(mm)
         IN /\ hits' = [hits EXCEPT ![p] = ms]
            /\ expenses' = [expenses EXCEPT ![p] = es]
            /\ IF Len(es) = 0
                 THEN /\ ReturnInsight(p, NoExpensesText)
                      /\ UNCHANGED <<total, monthMap, trendSummary, prompts, called>>
                 ELSE /\ total' = [total EXCEPT ![p] = Total(es)]
                      /\ monthMap' = [monthMap EXCEPT ![p] = mm]
                      /\ trendSummary' = [trendSummary EXCEPT ![p] = trend]
                      /\ prompts' = [prompts EXCEPT ![p] =
                             <<Prompt(StructuredContext(es, Total(es), trend))>>]
                      /\ called' = [called EXCEPT ![p] = @ \cup {"model.invoke"}]
                      /\ pc' = [pc EXCEPT ![p] = "invoke"]
                      /\ UNCHANGED <<ret, reply>>
    /\ UNCHANGED <<clients, table, serverHas, index, collection, model,
                   embedPipeline, op, insight>>
    /\ UNCHANGED <<replies, sample, error>>
    /\ UNCHANGED buildVars

\* model.invoke throws (first call or retry): queryInsights rejects.
InvokeThrows(p) ==
    /\ pc[p] \in {"invoke", "retry"}
    /\ pc' = [pc EXCEPT ![p] = "raised"]
    /\ UNCHANGED <<clients, table, serverHas, index, collection, model,
                   embedPipeline, op, ret, reply>>
    /\ UNCHANGED buildVars
    /\ UNCHANGED queryVars
    /\ error' = [error EXCEPT ![p] = "generation"]
    /\ replies' = [replies EXCEPT ![p] = Append(@, "fault")]
    /\ UNCHANGED <<called, sample>>

\* (variant: insight is a variable of the module, not of the call)
InvokeReturnShared(p) ==
    /\ pc[p] = "invoke"
    /\ \E resp \in GenResponses :
         LET first == FirstInsight(resp) IN
           /\ insight' = [q \in Procs |-> first]
           /\ IF Degenerate(first)
                THEN /\ prompts' = [prompts EXCEPT ![p] =
                            Append(@, SimplePrompt(prompts[p][1].context))]
                     /\ pc' = [pc EXCEPT ![p] = "retry"]
                     /\ UNCHANGED <<ret, reply>>
                ELSE /\ ReturnInsight(p, FinalInsight(first))
                     /\ UNCHANGED prompts
    /\ UNCHANGED <<clients, table, serverHas, index, collection, model,
                   embedPipeline, op, hits, expenses, total, monthMap, trendSummary>>
    /\ replies' = [replies EXCEPT ![p] = Append(@, "reply")]
    /\ UNCHANGED <<called, sample, error>>
    /\ UNCHANGED buildVars

\* The first model.invoke resolves: the reply is cleaned; a degenerate
\* insight makes the retry call, any other is returned.
InvokeReturn(p) ==
    /\ pc[p] = "invoke"
    /\ \E resp \in GenResponses :
         LET first == FirstInsight(resp) IN
           /\ insight' = [insight EXCEPT ![p] = first]
           /\ IF Degenerate(first)
                THEN /\ prompts' = [prompts EXCEPT ![p] =
                            Append(@, SimplePrompt(prompts[p][1].context))]
                     /\ pc' = [pc EXCEPT ![p] = "retry"]
                     /\ UNCHANGED <<ret, reply>>
                ELSE /\ ReturnInsight(p, FinalInsight(first))
                     /\ UNCHANGED prompts
    /\ UNCHANGED <<clients, table, serverHas, index, collection, model,
                   embedPipeline, op, hits, expenses, total, monthMap, trendSummary>>
    /\ replies' = [replies EXCEPT ![p] = Append(@, "reply")]
    /\ UNCHANGED <<called, sample, error>>
    /\ UNCHANGED buildVars

\* The retry resolves: its reply, or the first insight when the reply is
\* empty, is cleaned and returned (the sentinel when nothing is left).
RetryReturn(p) ==
    /\ pc[p] = "retry"
    /\ \E resp \in GenResponses :
         LET second == RetryInsight(resp, insight[p]) IN
           /\ insight' = [insight EXCEPT ![p] = second]
           /\ ReturnInsight(p, FinalInsight(second))
    /\ UNCHANGED <<clients, table, serverHas, index, collection, model,
                   embedPipeline, op, hits, expenses, total, monthMap, trendSummary,
                   prompts>>
    /\ replies' = [replies EXCEPT ![p] = Append(@, "reply")]
    /\ UNCHANGED <<called, sample, error>>
    /\ UNCHANGED buildVars

\* ---------------------------------------------------------------- debugChroma
\* limit of collection.get in debugChroma
DebugLimit == 10

StartDebug(p) == Start(p, "debug")

\* (variant: collection.get() without a limit)
SamplesAll(idx) == {idx}

\* collection.get({limit: 10}): any DebugLimit entries, all of them when the
\* collection holds no more
Samples(idx) ==
    LET n == IF Cardinality(idx) < DebugLimit THEN Cardinality(idx) ELSE DebugLimit
    IN {S \in SUBSET idx : Cardinality(S) = n}

\* collection.get resolves: debugChroma returns the entries and the route
\* sends them.
CollectionGetReturn(p) ==
    /\ pc[p] = "collectionGet"
    /\ \E S \in Samples(index) : sample' = [sample EXCEPT ![p] = S]
    /\ pc' = [pc EXCEPT ![p] = "done"]
    /\ ret' = [ret EXCEPT ![p] = [kind |-> "entries", text |-> <<>>]]
    /\ reply' = [reply EXCEPT ![p] = "entries"]
    /\ UNCHANGED <<clients, table, serverHas, index, collection, model, embedPipeline, op>>
    /\ UNCHANGED <<called, replies, error>>
    /\ UNCHANGED buildVars
    /\ UNCHANGED queryVars

\* collection.get throws: debugChroma rejects.
CollectionGetThrows(p) ==
    /\ pc[p] = "collectionGet"
    /\ pc' = [pc EXCEPT ![p] = "raised"]
    /\ error' = [error EXCEPT ![p] = "peek"]
    /\ UNCHANGED <<clients, table, serverHas, index, collection, model,
                   embedPipeline, op, ret, reply>>
    /\ UNCHANGED <<called, replies, sample>>
    /\ UNCHANGED buildVars
    /\ UNCHANGED queryVars

\* The route has answered (or failed): the request is over.
Finish(p) ==
    /\ pc[p] \in {"done", "raised"}
    /\ pc' = [pc EXCEPT ![p] = "idle"]
    /\ op' = [op EXCEPT ![p] = "idle"]
    /\ rows' = [rows EXCEPT ![p] = <<>>]
    /\ i' = [i EXCEPT ![p] = 0]
    /\ vector' = [vector EXCEPT ![p] = Embedding(<<>>)]
    /\ outcome' = [outcome EXCEPT ![p] = <<>>]
    /\ logged' = [logged EXCEPT ![p] = {}]
    /\ ret' = [ret EXCEPT ![p] = NoValue]
    /\ reply' = [reply EXCEPT ![p] = "none"]
    /\ hits' = [hits EXCEPT ![p] = <<>>]
    /\ expenses' = [expenses EXCEPT ![p] = <<>>]
    /\ total' = [total EXCEPT ![p] = 0]
    /\ monthMap' = [monthMap EXCEPT ![p] = <<>>]
    /\ trendSummary' = [trendSummary EXCEPT ![p] = <<>>]
    /\ prompts' = [prompts EXCEPT ![p] = <<>>]
    /\ insight' = [insight EXCEPT ![p] = <<>>]
    /\ called' = [called EXCEPT ![p] = {}]
    /\ replies' = [replies EXCEPT ![p] = <<>>]
    /\ sample' = [sample EXCEPT ![p] = {}]
    /\ error' = [error EXCEPT ![p] = "none"]
    /\ UNCHANGED <<clients, table, serverHas, index, collection, model, embedPipeline>>

\* The user edits expense k: its row changes to its second version.
EditExpense(k) ==
    /\ k \in DOMAIN table
    /\ table[k] = 1
    /\ table' = [table EXCEPT ![k] = 2]
    /\ UNCHANGED <<clients, serverHas, index, collection, model, embedPipeline,
                   op, pc, ret, reply>>
    /\ UNCHANGED buildVars
    /\ UNCHANGED queryVars
    /\ UNCHANGED traceVars

\* ------------------------------------------------------------------ claims
\* collection.query has resolved in the running queryInsights of p
Searched(p) ==
    /\ op[p] = "query"
    /\ pc[p] \in {"invoke", "retry", "done"} \/ prompts[p] # <<>>

\* no hit has a numeric amount
NoValidHit(p) == \A k \in 1..Len(hits[p]) : isNaN(Number(hits[p][k].amount))

\* C1: when the search returns no hit with a numeric amount, queryInsights
\* returns the "no valid expenses found" sentinel and model.invoke is not
\* called in that run.
C1_NoHitNoGenerator ==
    \A p \in Procs :
        (Searched(p) /\ NoValidHit(p)) =>
            /\ pc[p] = "done"
            /\ ret[p] = StringValue(NoExpensesText)
            /\ prompts[p] = <<>>

\* a run that got one hit, with a corrupt amount, and returned
C1_Witness ==
    \E p \in Procs :
        /\ Searched(p) /\ pc[p] = "done"
        /\ Len(hits[p]) = 1 /\ NoValidHit(p)

\* calls of model.invoke so far, by the await the run is at
C2_CallsBounded ==
    \A p \in Procs :
        /\ Len(prompts[p]) <= 2
        /\ pc[p] = "invoke" => Len(prompts[p]) = 1
        /\ pc[p] = "retry" => Len(prompts[p]) = 2

\* the step that receives the first reply
C2_FirstReply(p) ==
    (pc[p] = "invoke" /\ pc'[p] \in {"retry", "done"}) =>
        IF Len(insight'[p]) >= MinInsightLen
          THEN pc'[p] = "done" /\ prompts'[p] = prompts[p]
          ELSE /\ pc'[p] = "retry"
               /\ Len(prompts'[p]) = 2
               /\ prompts'[p][1] = prompts[p][1]
               /\ prompts'[p][2] # prompts[p][1]
               /\ prompts'[p][2].context = prompts[p][1].context
               /\ TemplateLen(prompts'[p][2]) < TemplateLen(prompts[p][1])

\* no call follows the retry
C2_AfterRetry(p) ==
    pc[p] = "retry" => pc'[p] \in {"retry", "done", "raised"} /\ prompts'[p] = prompts[p]

\* C2: the generator is called at most twice in a run: once when the first
\* cleaned output has at least 10 characters, twice (the retry with the
\* shorter prompt over the same context) when it is shorter; the retry is
\* never followed by another call.
C2_AtMostOneRetry ==
    /\ []C2_CallsBounded
    /\ [][\A p \in Procs : C2_FirstReply(p) /\ C2_AfterRetry(p)]_vars

\* a run that returned after the retry
C2_Witness ==
    \E p \in Procs :
        /\ op[p] = "query" /\ pc[p] = "done"
        /\ Len(prompts[p]) = 2
        /\ Len(insight[p]) >= MinInsightLen

\* C3: queryInsights returns a non-empty string: the cleaned insight when
\* there is one, the "no meaningful insight" sentinel exactly when the
\* insight left after the at most one retry is empty.
C3_NonEmptyResult ==
    \A p \in Procs :
        (op[p] = "query" /\ pc[p] = "done") =>
            /\ ret[p].kind = "string"
            /\ ret[p].text # <<>>
            /\ prompts[p] # <<>> =>
                 /\ insight[p] = <<>> => ret[p].text = NoInsightText
                 /\ insight[p] # <<>> => ret[p].text = insight[p]

\* a run whose two replies left nothing and that returned the sentinel
C3_Witness ==
    \E p \in Procs :
        /\ op[p] = "query" /\ pc[p] = "done"
        /\ Len(prompts[p]) = 2
        /\ insight[p] = <<>>
        /\ ret[p].text = NoInsightText

Written(what) == what \in {"stored", "ignored"}

\* C4: a failing embedding or index write for one expense does not end
\* buildEmbeddings: the run ends only after the last expense, and every
\* expense whose embedding and write succeeded has an entry in the index.
C4_FailureIsolated ==
    \A p \in Procs :
        op[p] = "build" =>
            /\ pc[p] = "raised" => outcome[p] = <<>>
            /\ pc[p] = "done" =>
                 /\ Len(outcome[p]) = Len(rows[p])
                 /\ \A k \in 1..Len(rows[p]) :
                        Written(outcome[p][k]) => HasId(index, rows[p][k].id)

\* a finished run in which an expense failed on embedding and a later one
\* was stored
C4_Witness ==
    \E p \in Procs :
        /\ op[p] = "build" /\ pc[p] = "done"
        /\ \E k, j \in 1..Len(outcome[p]) :
              k < j /\ outcome[p][k] = "embedFault" /\ outcome[p][j] = "stored"

WrittenCount(p) == Cardinality({k \in 1..Len(outcome[p]) : Written(outcome[p][k])})

ProviderFault(what) == what \in {"embedFault", "addFault"}

\* C6 (as claimed): ingestion is an idempotent upsert: after a run, every
\* expense the providers did not fail on has exactly one entry, with the
\* metadata of this run, and is not logged as a failure.
C6_IdempotentUpsert ==
    \A p \in Procs :
        (op[p] = "build" /\ pc[p] = "done") =>
            \A k \in 1..Len(rows[p]) :
                ~ProviderFault(outcome[p][k]) =>
                    /\ Cardinality(EntriesOf(index, rows[p][k].id)) = 1
                    /\ \A e \in EntriesOf(index, rows[p][k].id) :
                           e.metadata = Metadata(rows[p][k])
                    /\ rows[p][k].id \notin logged[p]

Numeric(m) == Number(m.amount).kind = "number"

\* the hits with a numeric amount, in hit order
RECURSIVE NumericHits(_)
NumericHits(ms) ==
    IF ms = <<>> THEN <<>>
    ELSE (IF Numeric(Head(ms))
            THEN <<[note |-> Head(ms).note, amount |-> Head(ms).amount, date |-> Head(ms).date]>>
            ELSE <<>>) \o NumericHits(Tail(ms))

CorruptCount(ms) == Cardinality({k \in 1..Len(ms) : ~Numeric(ms[k])})

\* C7: expenses holds exactly the hits whose amount is numeric, in hit
\* order and unchanged: its length is the number of hits minus the number
\* of corrupt hits, and a corrupt hit raises no error.
C7_CorruptHitsDropped ==
    \A p \in Procs :
        Searched(p) =>
            /\ expenses[p] = NumericHits(hits[p])
            /\ Len(expenses[p]) = Len(hits[p]) - CorruptCount(hits[p])

\* three hits, one of them corrupt, two expenses
C7_Witness ==
    \E p \in Procs :
        /\ Searched(p)
        /\ Len(hits[p]) = K /\ CorruptCount(hits[p]) = 1 /\ Len(expenses[p]) = K - 1

RECURSIVE SumOver(_, _)
SumOver(f, S) ==
    IF S = {} THEN 0
    ELSE LET x == CHOOSE y \in S : TRUE IN f[x] + SumOver(f, S \ {x})

HitAmounts(ms) == [k \in 1..Len(ms) |-> IF Numeric(ms[k]) THEN Number(ms[k].amount).v ELSE 0]

\* C8: the total put into the context block is the sum of the amounts of
\* the numeric hits, and the sums per month add up to it.
C8_TotalIsSum ==
    \A p \in Procs :
        (Searched(p) /\ expenses[p] # <<>>) =>
            /\ total[p] = SumOver(HitAmounts(hits[p]), 1..Len(hits[p]))
            /\ SumOver(monthMap[p], DOMAIN monthMap[p]) = total[p]
            /\ prompts[p][1].context.total = ToFixed2(total[p])

\* three expenses, two of them in one month
C8_Witness ==
    \E p \in Procs :
        /\ Searched(p)
        /\ Len(expenses[p]) = 3
        /\ Cardinality(DOMAIN monthMap[p]) = 2

MonthsOf(es) == {<<es[k].date.y, es[k].date.m>> : k \in 1..Len(es)}

\* C9: the trend sentence is non-empty exactly when the expenses lie in at
\* least two distinct months (month and year).
C9_TrendIffTwoMonths ==
    \A p \in Procs :
        (Searched(p) /\ expenses[p] # <<>>) =>
            /\ trendSummary[p] # <<>> <=> Cardinality(MonthsOf(expenses[p])) >= 2
            /\ prompts[p][1].context.trend = trendSummary[p]

\* three expenses of one month, no trend sentence
C9_Witness ==
    \E p \in Procs :
        /\ Searched(p)
        /\ Len(expenses[p]) = 3
        /\ Cardinality(MonthsOf(expenses[p])) = 1
        /\ trendSummary[p] = <<>>

\* number of a month in calendar order
RECURSIVE MonthNumber(_, _)
MonthNumber(name, m) == IF MonthNames[m] = name THEN m ELSE MonthNumber(name, m + 1)

Chronological(label) == label.year * 12 + MonthNumber(label.name, 1)

\* C10 (as claimed): the trend sentence says whether the spend of the later
\* of the two compared months is higher or lower than that of the earlier
\* one, by the absolute difference of their sums.
C10_TrendOfLaterMonth ==
    \A p \in Procs :
        (Searched(p) /\ trendSummary[p] # <<>>) =>
            LET earlier == trendSummary[p][2]
                later == trendSummary[p][4]
                diff == monthMap[p][later] - monthMap[p][earlier]
            IN /\ Chronological(earlier) < Chronological(later)
               /\ trendSummary[p][6] = IF diff >= 0 THEN "higher" ELSE "lower"
               /\ trendSummary[p][8] = ToFixed2(Abs(diff))

\* ------------------------------------------------------------------- C11
\* C11: when embedding the query fails, queryInsights rejects with that
\* error and the run has called neither collection.query nor model.invoke;
\* when collection.query fails, queryInsights rejects and the run has not
\* called model.invoke.
C11_EarlyFailureStops ==
    \A p \in Procs :
        op[p] = "query" =>
            /\ error[p] = "embedding" =>
                   /\ pc[p] = "raised"
                   /\ called[p] = {}
                   /\ hits[p] = <<>> /\ prompts[p] = <<>>
            /\ error[p] = "search" =>
                   /\ pc[p] = "raised"
                   /\ called[p] = {"collection.query"}
                   /\ prompts[p] = <<>>

\* a query whose embedding failed while the collection held entries
C11_Witness ==
    \E p \in Procs :
        /\ op[p] = "query" /\ pc[p] = "raised"
        /\ error[p] = "embedding"
        /\ index # {}

\* ------------------------------------------------------------------- C12
\* C12 (as claimed): queryInsights rejects with a generation fault only
\* when both model.invoke calls, the first and the retry, faulted.
C12_RaisesOnlyAfterTwoFaults ==
    \A p \in Procs :
        (op[p] = "query" /\ pc[p] = "raised" /\ error[p] = "generation") =>
            replies[p] = <<"fault", "fault">>

\* ------------------------------------------------------------------- C13
\* limits a caller of the peek could ask for
Limits == 1..MaxIndexed

\* C13 (as claimed): whatever limit is asked of the peek, it returns at
\* most that many entries.
C13_HonoursLimit ==
    \A p \in Procs :
        (op[p] = "debug" /\ pc[p] = "done") =>
            \A limit \in Limits : Cardinality(sample[p]) <= limit

Min(a, b) == IF a < b THEN a ELSE b

\* C13 (amended): debugChroma takes no limit; it returns entries of the
\* collection, ten of them or all when the collection holds fewer, and no
\* step of it changes the collection.
C13_FixedLimit ==
    /\ [](\A p \in Procs :
            (op[p] = "debug" /\ pc[p] = "done") =>
                /\ sample[p] \subseteq index
                /\ Cardinality(sample[p]) = Min(DebugLimit, Cardinality(index)))
    /\ [][\A p \in Procs :
            (op[p] = "debug" /\ pc'[p] # pc[p]) => index' = index]_vars

\* a peek answered from a collection of more than ten entries
C13_Witness ==
    \E p \in Procs :
        /\ op[p] = "debug" /\ pc[p] = "done"
        /\ Cardinality(index) > DebugLimit
        /\ Cardinality(sample[p]) = DebugLimit

\* ------------------------------------------------------------------- C14
\* the retry reply cleaned first, taken only when something is left of it
Preferred(resp, first) ==
    LET cleaned == FirstInsight(resp)
    IN IF cleaned # <<>> THEN cleaned ELSE first

\* C14 (as claimed): after a degenerate first insight the run ends with
\* the cleaned retry reply when that is non-empty and with the first
\* cleaned insight otherwise, so a non-empty first insight never ends in
\* the "no meaningful insights" sentinel.
C14_RetryPreferredIfNonEmpty ==
    [][\A p \in Procs :
         (pc[p] = "retry" /\ pc'[p] = "done") =>
             /\ \E resp \in GenResponses : insight'[p] = Preferred(resp, insight[p])
             /\ insight[p] # <<>> => ret'[p] # StringValue(NoInsightText)]_vars

\* ------------------------------------------------------------------- C15
\* the label of labels that is latest in time
Newest(labels) ==
    CHOOSE l \in labels : \A o \in labels : Chronological(o) <= Chronological(l)

\* C15 (as claimed): with expenses of three distinct months retrieved, the
\* trend sentence compares the two chronologically latest of them, the
\* earlier one first.
C15_TrendOfTwoLatestMonths ==
    \A p \in Procs :
        (Searched(p) /\ Cardinality(DOMAIN monthMap[p]) = 3) =>
            LET labels == DOMAIN monthMap[p]
                last == Newest(labels)
                before == Newest(labels \ {last})
            IN /\ trendSummary[p] # <<>>
               /\ trendSummary[p][2] = before
               /\ trendSummary[p][4] = last

\* ------------------------------------------------------------------- C16
\* the entry a complete write of version ver of row id makes
CompleteEntry(id, ver) ==
    LET row == SourceRow(id, ver)
        text == <<"Expense: ", row.note, ", Amount: $", row.amount,
                  ", Date: ", row.expense_date>>
    IN [id |-> id,
        embedding |-> Embedding(text),
        metadata |-> [text |-> text,
                      note |-> row.note,
                      amount |-> Number(row.amount),
                      date |-> row.expense_date]]

\* C16: every entry of the collection is the complete entry (id, vector,
\* text, note, amount and date) of one version of its source row, no id
\* has two entries, and a record whose embedding failed changes nothing in
\* the collection.
C16_EntriesComplete ==
    /\ [](\A e \in index :
            /\ \E ver \in {1, 2} : e = CompleteEntry(e.id, ver)
            /\ EntriesOf(index, e.id) = {e})
    /\ [][\A p \in Procs :
            (/\ op[p] = "build"
             /\ pc[p] \in {"pipeline", "embedPipeline"}
             /\ Len(outcome'[p]) > Len(outcome[p])) => index' = index]_vars

\* two ingestion runs that read different versions of the same row have
\* both ended, one of them after a failure on the record
C16_Witness ==
    \E p, q \in Procs :
        /\ p # q
        /\ op[p] = "build" /\ op[q] = "build"
        /\ pc[p] = "done" /\ pc[q] = "done"
        /\ rows[p] # <<>> /\ rows[q] # <<>> /\ rows[p] # rows[q]
        /\ \E k \in 1..Len(outcome[q]) : ~Written(outcome[q][k])
        /\ index # {}

\* ------------------------------------------------------------------- C17
\* what a query run holds between its awaits
QueryLocals(p) ==
    <<hits[p], expenses[p], total[p], monthMap[p], trendSummary[p], prompts[p],
      insight[p], ret[p], reply[p]>>

\* what a run derives from its own hits
OwnResult(p) ==
    LET es == RetrievedExpenses(hits[p]) IN
      /\ expenses[p] = es
      /\ es # <<>> =>
           /\ total[p] = Total(es)
           /\ monthMap[p] = MonthMap(es)
           /\ trendSummary[p] = TrendSummary(MonthMap(es))
           /\ prompts[p][1] = Prompt(StructuredContext(es, Total(es), TrendSummary(MonthMap(es))))
      /\ pc[p] = "done" =>
           ret[p] = StringValue(IF es = <<>> THEN NoExpensesText ELSE FinalInsight(insight[p]))

\* C17: no step of a queryInsights run changes the collection, the step
\* of one run leaves what another run holds untouched, and what a run
\* holds and returns is derived from its own hits and its own generator
\* replies.
C17_QueriesIsolated ==
    /\ [](\A p \in Procs : Searched(p) => OwnResult(p))
    /\ [][\A p \in Procs :
            op[p] = "query" =>
                /\ pc'[p] # pc[p] => index' = index
                /\ pc'[p] = pc[p] => QueryLocals(p)' = QueryLocals(p)]_vars

\* two queries that ran interleaved have ended with different results
C17_Witness ==
    \E p, q \in Procs :
        /\ p # q
        /\ op[p] = "query" /\ op[q] = "query"
        /\ pc[p] = "done" /\ pc[q] = "done"
        /\ Len(prompts[p]) = 2 /\ Len(prompts[q]) = 1
        /\ ret[p] # ret[q]

\* ------------------------------------------------------------------- C18
InInitRAG(at) == at \in {"createCollection", "getCollection"}

\* C18: a failing chroma.createCollection is not an error and initRAG goes
\* on to fetch the collection; once the handle is set no later call makes
\* a create or get call; a failing chroma.getCollection leaves the handle
\* as it was, and a call that finds the handle unset initialises again.
C18_InitRetryable ==
    [][\A p \in Procs :
         /\ (pc[p] = "createCollection" /\ pc'[p] # pc[p]) =>
                pc'[p] = "getCollection" /\ error'[p] = "none"
         /\ (pc[p] = "getCollection" /\ pc'[p] \notin {"getCollection", "raised"}) =>
                collection' /\ ~InInitRAG(pc'[p])
         /\ (pc[p] = "getCollection" /\ pc'[p] = "raised") =>
                collection' = collection /\ error'[p] = "init"
         /\ (pc[p] = "idle" /\ pc'[p] # "idle") =>
                IF collection THEN ~InInitRAG(pc'[p])
                              ELSE pc'[p] = "createCollection"]_vars

\* initialisation failed at chroma.getCollection although the server holds
\* the collection, and the handle is unset
C18_Witness ==
    \E p \in Procs :
        /\ pc[p] = "raised" /\ error[p] = "init"
        /\ serverHas /\ ~collection

\* ------------------------------------------------------------------- C19
\* C19 (as claimed): no two requests are inside the collection
\* initialisation at once, and no two are loading the embedding pipeline
\* at once.
C19_InitialisedOnce ==
    \A p, q \in Procs :
        p # q =>
            /\ ~(InInitRAG(pc[p]) /\ InInitRAG(pc[q]))
            /\ ~(pc[p] = "pipeline" /\ pc[q] = "pipeline")

Next ==
    \/ \E p \in Procs : StartBuild(p)
    \/ \E p \in Procs : CreateCollectionReturn(p)
    \/ \E p \in Procs : GetCollectionOk(p)
    \/ \E p \in Procs : GetCollectionThrows(p)
    \/ \E p \in Procs : PoolQueryThrows(p)
    \/ \E p \in Procs : PoolQueryReturn(p)
    \/ \E p \in Procs : PipelineReturn(p)
    \/ \E p \in Procs : BuildEmbedThrows(p)
    \/ \E p \in Procs : BuildEmbedReturn(p)
    \/ \E p \in Procs : CollectionAddReturn(p)
    \/ \E p \in Procs : CollectionAddThrows(p)
    \/ \E p \in Procs : StartQuery(p)
    \/ \E p \in Procs : QueryEmbedThrows(p)
    \/ \E p \in Procs : QueryEmbedReturn(p)
    \/ \E p \in Procs : CollectionQueryThrows(p)
    \/ \E p \in Procs : CollectionQueryReturn(p)
    \/ \E p \in Procs : InvokeThrows(p)
    \/ \E p \in Procs : InvokeReturn(p)
    \/ \E p \in Procs : RetryReturn(p)
    \/ \E p \in Procs : StartDebug(p)
    \/ \E p \in Procs : CollectionGetReturn(p)
    \/ \E p \in Procs : CollectionGetThrows(p)
    \/ \E p \in Procs : Finish(p)
    \/ \E k \in Ids : EditExpense(k)

Spec == Init /\ [][Next]_vars

SpecConc == InitConc /\ [][Next]_vars

\* debugChroma alone
NextDebug ==
    \/ \E p \in Procs : StartDebug(p)
    \/ \E p \in Procs : CreateCollectionReturn(p)
    \/ \E p \in Procs : GetCollectionOk(p)
    \/ \E p \in Procs : GetCollectionThrows(p)
    \/ \E p \in Procs : CollectionGetReturn(p)
    \/ \E p \in Procs : CollectionGetThrows(p)
    \/ \E p \in Procs : Finish(p)

SpecDebug == InitDebug /\ [][NextDebug]_vars

====
